---- MODULE Spec2Model ----
(***************************************************************************)
(* Vault-to-publication resolution pipeline of the blog:                   *)
(*   src/lib/vault-scanner.ts  (index build, cache, read operations)       *)
(*   src/lib/utils.ts          (walker, metadata extractor, slug helper)   *)
(*                                                                         *)
(* Strings are sequences of one-character strings, so that the slug        *)
(* derivation and the date parser work on characters.  Raw metadata values *)
(* are tagged values [t, v]: t is the JavaScript type of the value.        *)
(***************************************************************************)
EXTENDS Integers, Sequences, FiniteSets, TLC

\* ------------------------------------------------------------------ bounds
MaxFiles   == 2    \* most files in a vault
NumCallers == 2    \* callers of the read operations that may overlap
MaxCalls   == 2    \* read operations invoked in one behaviour
MaxNameLen == 3    \* most characters of a file name before its extension
MaxEntries == 3    \* most files of a directory tree handed to the walker

\* --------------------------------------------------------------- characters
Lower  == <<"a","b","c","d","e","f","g","h","i","j","k","l","m",
            "n","o","p","q","r","s","t","u","v","w","x","y","z">>
Upper  == <<"A","B","C","D","E","F","G","H","I","J","K","L","M",
            "N","O","P","Q","R","S","T","U","V","W","X","Y","Z">>
Digits == <<"0","1","2","3","4","5","6","7","8","9">>

Range(s) == { s[i] : i \in DOMAIN s }

\* The element of a one-element set.  Once({ F(x) : x \in { e } }) is F(e) with e
\* computed a single time, as a call computes its argument before it runs.
Once(S) == CHOOSE x \in S : TRUE

IsDigit(c) == c \in Range(Digits)
IsAlnum(c) == c \in Range(Lower) \cup Range(Upper) \cup Range(Digits)
DigitVal(c) == (CHOOSE i \in DOMAIN Digits : Digits[i] = c) - 1
ToLowerChar(c) ==
  IF c \in Range(Upper) THEN Lower[CHOOSE i \in DOMAIN Upper : Upper[i] = c] ELSE c

\* String.prototype.toLowerCase
ToLowerCase(s) == [ i \in DOMAIN s |-> ToLowerChar(s[i]) ]

\* ------------------------------------------------------------ string literals
S_published   == <<"p","u","b","l","i","s","h","e","d">>
S_draft       == <<"d","r","a","f","t">>
S_idea        == <<"i","d","e","a">>
S_archived    == <<"a","r","c","h","i","v","e","d">>
S_true        == <<"t","r","u","e">>
S_false       == <<"f","a","l","s","e">>
S_constructor == <<"c","o","n","s","t","r","u","c","t","o","r">>
S_proto       == <<"_","_","p","r","o","t","o","_","_">>
S_toString    == <<"t","o","S","t","r","i","n","g">>

\* ------------------------------------------------------ JavaScript values
Undefined   == [t |-> "undefined", v |-> <<>>]
Str(s)      == [t |-> "string",  v |-> s]
Num(n)      == [t |-> "number",  v |-> n]
Bool(b)     == [t |-> "boolean", v |-> b]
Arr(xs)     == [t |-> "array",   v |-> xs]

\* ToBoolean: Boolean(x), !x, x || y, x ? a : b
Truthy(x) ==
  CASE x.t = "undefined" -> FALSE
    [] x.t = "boolean"   -> x.v
    [] x.t = "number"    -> x.v # 0
    [] x.t = "string"    -> x.v # <<>>
    [] OTHER             -> TRUE

RECURSIVE NatToString(_)
NatToString(n) ==
  IF n < 10 THEN <<Digits[n + 1]>>
  ELSE NatToString(n \div 10) \o <<Digits[(n % 10) + 1]>>

RECURSIVE JoinComma(_)
RECURSIVE JoinComma_NoSeparator(_)
\* String(x): the string conversion of a truthy or falsy value
ToStr(x) ==
  CASE x.t = "string"    -> x.v
    [] x.t = "number"    -> IF x.v < 0 THEN <<"-">> \o NatToString(0 - x.v)
                            ELSE NatToString(x.v)
    [] x.t = "boolean"   -> IF x.v THEN S_true ELSE S_false
    [] x.t = "array"     -> JoinComma(x.v)
    [] OTHER             -> <<"u","n","d","e","f","i","n","e","d">>
\* an element of a joined array: undefined and null are the empty string
ElementStr(x) == IF x.t = "undefined" THEN <<>> ELSE ToStr(x)

\* the elements follow one another without a separator
JoinComma_NoSeparator(xs) ==
  IF xs = <<>> THEN <<>>
  ELSE ElementStr(xs[1]) \o JoinComma_NoSeparator(Tail(xs))

\* Array.prototype.join(",") of String(array)
JoinComma(xs) ==
  IF xs = <<>> THEN <<>>
  ELSE IF Len(xs) = 1 THEN ElementStr(xs[1])
  ELSE ElementStr(xs[1]) \o <<",">> \o JoinComma(Tail(xs))

\* --------------------------------------------------------------------- paths
\* A path is a sequence of segments, each a string.  VaultPath is
\* path.join(process.cwd(), 'vault').
VaultPath == << <<"p","r","o","j","e","c","t">>, <<"v","a","u","l","t">> >>

\* path.join(currentPath, entry.name) for a vault-relative location
AbsPath(rel) == VaultPath \o rel

\* path.relative(vaultPath, markdownFile) for a file below the vault
PathRelative(from, to) == SubSeq(to, Len(from) + 1, Len(to))

\* index of the last "." of a name, 0 when there is none
LastDot(name) ==
  IF \E i \in DOMAIN name : name[i] = "."
  THEN CHOOSE i \in DOMAIN name : name[i] = "." /\ \A j \in DOMAIN name : j > i => name[j] # "."
  ELSE 0

\* path.extname: from the last "." of the last segment to its end, empty when
\* there is no "." or the only "." is the first character
ExtName(path) ==
  LET name == path[Len(path)]
      d    == LastDot(name)
  IN  IF d <= 1 THEN <<>> ELSE SubSeq(name, d, Len(name))

\* path.basename(p, ext): the last segment without a trailing ext
BaseName(path, ext) ==
  LET name == path[Len(path)]
      n    == Len(name)
      k    == Len(ext)
  IN  IF k > 0 /\ k < n /\ SubSeq(name, n - k + 1, n) = ext
      THEN SubSeq(name, 1, n - k)
      ELSE name

\* ---------------------------------------------------------------- slug helper
RECURSIVE ReplaceNonAlnumRuns_PerChar(_, _)
\* s.replace(/[^A-Za-z0-9]/g, '-'): a hyphen for every character
ReplaceNonAlnumRuns_PerChar(s, inRun) ==
  IF s = <<>> THEN <<>>
  ELSE IF IsAlnum(Head(s)) THEN <<Head(s)>> \o ReplaceNonAlnumRuns_PerChar(Tail(s), FALSE)
  ELSE <<"-">> \o ReplaceNonAlnumRuns_PerChar(Tail(s), TRUE)

RECURSIVE ReplaceNonAlnumRuns(_, _)
\* s.replace(/[^A-Za-z0-9]+/gi, '-'): inRun is TRUE while the characters just
\* read belong to a run that already produced its hyphen
ReplaceNonAlnumRuns(s, inRun) ==
  IF s = <<>> THEN <<>>
  ELSE IF IsAlnum(Head(s)) THEN <<Head(s)>> \o ReplaceNonAlnumRuns(Tail(s), FALSE)
  ELSE IF inRun THEN ReplaceNonAlnumRuns(Tail(s), TRUE)
  ELSE <<"-">> \o ReplaceNonAlnumRuns(Tail(s), TRUE)

createSlugNameFromFilePath(filePath) ==
  Once({ ToLowerCase(replaced) :
           replaced \in { ReplaceNonAlnumRuns(filename, FALSE) :
                            filename \in { BaseName(filePath, ExtName(filePath)) } } })

\* ------------------------------------------------------------------- dates
\* new Date(str).getTime(), for the date-only forms YYYY-MM-DD and YYYY/MM/DD
\* with month 1..12 and day 1..31 (a day past the month's end rolls over);
\* every other string is NaN.  Time is counted in days since 1970-01-01, the
\* time zone is UTC.
NaN == [nan |-> TRUE, time |-> 0]

Time(d) == [nan |-> FALSE, time |-> d]

\* days from 1970-01-01 to the first day of month m of year y
DaysFromCivil(y, m) ==
  LET yy  == IF m <= 2 THEN y - 1 ELSE y
      era == yy \div 400
      yoe == yy - era * 400
      mp  == (m + 9) % 12
      doy == (153 * mp + 2) \div 5
      doe == yoe * 365 + yoe \div 4 - yoe \div 100 + doy
  IN  era * 146097 + doe - 719468

DateParse(s) ==
  IF /\ Len(s) = 10
     /\ \A i \in {1, 2, 3, 4, 6, 7, 9, 10} : IsDigit(s[i])
     /\ s[5] \in {"-", "/"}
     /\ s[8] = s[5]
  THEN LET y == DigitVal(s[1]) * 1000 + DigitVal(s[2]) * 100
                + DigitVal(s[3]) * 10 + DigitVal(s[4])
           m == DigitVal(s[6]) * 10 + DigitVal(s[7])
           d == DigitVal(s[9]) * 10 + DigitVal(s[10])
       IN  IF m \in 1..12 /\ d \in 1..31
           THEN Time(DaysFromCivil(y, m) + d - 1)
           ELSE NaN
  ELSE NaN

\* ------------------------------------------------------------------ errors
\* The content of a thrown Error: what its message names.
NoPath == [defined |-> FALSE, path |-> <<>>]

SomePath(p) == [defined |-> TRUE, path |-> p]

Err(kind, file, field, value, slug, first) ==
  [kind |-> kind, file |-> file, field |-> field, value |-> value,
   slug |-> slug, first |-> first]

NoError == Err("none", <<>>, "", <<>>, <<>>, NoPath)

\* ------------------------------------------------- frontmatter validation
\* a date string with "/" turned into "-"
DashForm(s) == [ i \in DOMAIN s |-> IF s[i] = "/" THEN "-" ELSE s[i] ]

\* validateDate returning the date in a canonical form instead of the string given
validateDate_Canonical(dateValue, fieldName, filePath) ==
  IF ~Truthy(dateValue)
  THEN [ok |-> FALSE, value |-> <<>>,
        err |-> Err("missing required field", filePath, fieldName, <<>>, <<>>, NoPath)]
  ELSE IF DateParse(ToStr(dateValue)).nan
  THEN [ok |-> FALSE, value |-> ToStr(dateValue),
        err |-> Err("invalid", filePath, fieldName, ToStr(dateValue), <<>>, NoPath)]
  ELSE [ok |-> TRUE, value |-> DashForm(ToStr(dateValue)), err |-> NoError]

\* validateDate without the test for a missing value
validateDate_NotRequired(dateValue, fieldName, filePath) ==
  IF DateParse(ToStr(dateValue)).nan
  THEN [ok |-> FALSE, value |-> ToStr(dateValue),
        err |-> Err("invalid", filePath, fieldName, ToStr(dateValue), <<>>, NoPath)]
  ELSE [ok |-> TRUE, value |-> ToStr(dateValue), err |-> NoError]

\* validateDate of validateAndNormalizeFrontmatter
validateDate(dateValue, fieldName, filePath) ==
  IF ~Truthy(dateValue)
  THEN [ok |-> FALSE, value |-> <<>>,
        err |-> Err("missing required field", filePath, fieldName, <<>>, <<>>, NoPath)]
  ELSE LET dateStr == ToStr(dateValue)
       IN  IF DateParse(dateStr).nan
           THEN [ok |-> FALSE, value |-> dateStr,
                 err |-> Err("invalid", filePath, fieldName, dateStr, <<>>, NoPath)]
           ELSE [ok |-> TRUE, value |-> dateStr, err |-> NoError]

\* rawData.x || ''
OrEmpty(x) == IF Truthy(x) THEN x ELSE Str(<<>>)

\* updated validated like published, absent or not
ValidateUpdated_Required(updated, filePath) == validateDate(updated, "updated", filePath)

\* rawData.updated ? validateDate(rawData.updated, 'updated') : undefined
ValidateUpdated(updated, filePath) ==
  IF Truthy(updated)
  THEN validateDate(updated, "updated", filePath)
  ELSE [ok |-> TRUE, value |-> <<>>, err |-> NoError]

\* every value is wrapped, a sequence too
NormalizeTags_AlwaysWraps(tags) ==
  IF Truthy(tags) THEN Arr(<<Str(ToStr(tags))>>) ELSE Undefined

\* Array.isArray(rawData.tags) ? rawData.tags
\*   : (rawData.tags ? [String(rawData.tags)] : undefined)
NormalizeTags(tags) ==
  IF tags.t = "array" THEN tags
  ELSE IF Truthy(tags) THEN Arr(<<Str(ToStr(tags))>>)
  ELSE Undefined

\* rawData.x ? String(rawData.x) : undefined
StringIfTruthy(x) == IF Truthy(x) THEN Str(ToStr(x)) ELSE Undefined

\* a status outside the declared values is replaced by 'draft'
NormalizeStatus_Defaults(status) ==
  IF status.t = "string" /\ status.v \in { S_published, S_draft, S_idea }
  THEN status ELSE Str(S_draft)

\* status: rawData.status
NormalizeStatus(status) == status

validateAndNormalizeFrontmatter(rawData, filePath) ==
  LET pub == validateDate(rawData.published, "published", filePath)
      upd == ValidateUpdated(rawData.updated, filePath)
      fm  == [blog        |-> Bool(Truthy(rawData.blog)),
              title       |-> Str(ToStr(OrEmpty(rawData.title))),
              description |-> Str(ToStr(OrEmpty(rawData.description))),
              status      |-> NormalizeStatus(rawData.status),
              published   |-> Str(pub.value),
              updated     |-> IF Truthy(rawData.updated) THEN Str(upd.value) ELSE Undefined,
              category    |-> StringIfTruthy(rawData.category),
              tags        |-> NormalizeTags(rawData.tags),
              slug        |-> StringIfTruthy(rawData.slug)]
  IN  IF ~pub.ok THEN [ok |-> FALSE, fm |-> fm, err |-> pub.err]
      ELSE IF ~upd.ok THEN [ok |-> FALSE, fm |-> fm, err |-> upd.err]
      ELSE [ok |-> TRUE, fm |-> fm, err |-> NoError]

\* ------------------------------------------------------------ the documents
\* A document of the vault: its vault-relative path, whether gray-matter
\* parses its header, and the raw metadata the header holds.
Raw(blog, status, published, updated, slug) ==
  [blog |-> blog, title |-> Undefined, description |-> Undefined,
   status |-> status, published |-> published, updated |-> updated,
   category |-> Undefined, tags |-> Undefined, slug |-> slug]

File(path, parses, raw) == [path |-> path, parses |-> parses, raw |-> raw]

D_0110 == <<"2","0","2","4","-","0","1","-","1","0">>
D_0120 == <<"2","0","2","4","-","0","1","-","2","0">>
D_0116 == <<"2","0","2","4","/","0","1","/","1","6">>
D_bad  == <<"n","o","t","-","a","-","d","a","t","e">>

Catalog == <<
  \* 1: a published post, slug derived from the file name ("a")
  File(<< <<"a",".","m","d">> >>, TRUE,
       Raw(Bool(TRUE), Str(S_published), Str(D_0120), Undefined, Undefined)),
  \* 2: a draft with the same base name in a subdirectory
  File(<< <<"s","u","b">>, <<"A",".","m","d","x">> >>, TRUE,
       Raw(Bool(TRUE), Str(S_draft), Str(D_0110), Undefined, Undefined)),
  \* 3: a published post with the explicit slug "a"
  File(<< <<"b",".","m","d">> >>, TRUE,
       Raw(Bool(TRUE), Str(S_published), Str(D_0116), Str(D_0120), Str(<<"a">>))),
  \* 4: another published post with the explicit slug "a", blog given as a string
  File(<< <<"s","u","b">>, <<"c",".","m","d">> >>, TRUE,
       Raw(Str(S_true), Str(S_published), Str(D_0110), Undefined, Str(<<"a">>))),
  \* 5: a published post without a published date
  File(<< <<"n","o"," ","d","a","t","e","!",".","m","d">> >>, TRUE,
       Raw(Bool(TRUE), Str(S_published), Undefined, Undefined, Undefined)),
  \* 6: a private note whose dates are garbage
  File(<< <<"n","o","t","e",".","m","d">> >>, TRUE,
       Raw(Bool(FALSE), Str(S_published), Str(D_bad), Str(D_bad), Undefined)),
  \* 7: a private note without any metadata of the blog
  File(<< <<"s","u","b">>, <<"n","o","t","e",".","m","d">> >>, TRUE,
       Raw(Undefined, Undefined, Undefined, Undefined, Undefined)),
  \* 8: a private note whose header is not valid YAML
  File(<< <<"y",".","m","d">> >>, FALSE,
       Raw(Undefined, Undefined, Undefined, Undefined, Undefined)),
  \* 9: a published post whose explicit slug names a property of Object.prototype
  File(<< <<"k",".","m","d">> >>, TRUE,
       Raw(Bool(TRUE), Str(S_published), Str(D_0116), Undefined, Str(S_constructor))),
  \* 10: a post with blog: 0 and an unparseable date
  File(<< <<"z",".","m","d">> >>, TRUE,
       Raw(Num(0), Str(S_published), Str(D_bad), Undefined, Undefined)),
  \* 11: a draft whose updated date does not parse
  File(<< <<"u",".","m","d">> >>, TRUE,
       Raw(Bool(TRUE), Str(S_draft), Str(D_0110), Str(D_bad), Undefined)),
  \* 12: a published post whose file name derives to that same slug
  File(<< <<"C","o","n","s","t","r","u","c","t","o","r",".","m","d">> >>, TRUE,
       Raw(Bool(TRUE), Str(S_published), Str(D_0120), Undefined, Undefined)),
  \* 13: an older published post with a slug of its own
  File(<< <<"M","y"," ","C","o","o","l"," ","P","o","s","t","!",".","m","d">> >>, TRUE,
       Raw(Bool(TRUE), Str(S_published), Str(D_0110), Undefined, Undefined)),
  \* 14: a draft whose published date does not parse
  File(<< <<"w",".","m","d">> >>, TRUE,
       Raw(Bool(TRUE), Str(S_draft), Str(D_bad), Undefined, Undefined)),
  \* 15: a private note with a complete, valid header
  File(<< <<"d","i","a","r","y",".","m","d">> >>, TRUE,
       Raw(Bool(FALSE), Str(S_published), Str(D_0116), Undefined, Undefined))
>>

DocIds == DOMAIN Catalog

\* ------------------------------------------------------------ the slug map
\* A BlogSlugMap is modelled by the sequence of its own properties, each a
\* [key, value], in the order Object.keys / Object.values enumerate them.
\* It is created by the literal {}, so it inherits from Object.prototype.
ObjectPrototypeKeys ==
  { S_constructor, S_toString, S_proto,
    <<"v","a","l","u","e","O","f">>,
    <<"h","a","s","O","w","n","P","r","o","p","e","r","t","y">> }

RECURSIVE StrToNat(_, _)
StrToNat(s, acc) ==
  IF s = <<>> THEN acc ELSE StrToNat(Tail(s), acc * 10 + DigitVal(Head(s)))

\* an integer-index property key: enumerated first, in ascending order
IsArrayIndex(key) ==
  /\ Len(key) \in 1..9
  /\ \A i \in DOMAIN key : IsDigit(key[i])
  /\ (Len(key) > 1 => key[1] # "0")

HasOwn(slugMap, key) == \E i \in DOMAIN slugMap : slugMap[i].key = key

GetOwn(slugMap, key) ==
  slugMap[CHOOSE i \in DOMAIN slugMap : slugMap[i].key = key].value

\* Object.keys(slugMap)
Keys(slugMap) == [ i \in DOMAIN slugMap |-> slugMap[i].key ]

\* Object.values(slugMap)
Values(slugMap) == [ i \in DOMAIN slugMap |-> slugMap[i].value ]

\* slugMap[key]: an own descriptor, a member inherited from Object.prototype,
\* or undefined
Lookup(slugMap, key) ==
  IF HasOwn(slugMap, key) THEN [kind |-> "own", desc |-> <<GetOwn(slugMap, key)>>]
  ELSE IF key \in ObjectPrototypeKeys THEN [kind |-> "inherited", desc |-> <<>>]
  ELSE [kind |-> "undefined", desc |-> <<>>]

\* position at which a new own property is enumerated
InsertPos(slugMap, key) ==
  IF IsArrayIndex(key)
  THEN 1 + Cardinality({ i \in DOMAIN slugMap :
                           /\ IsArrayIndex(slugMap[i].key)
                           /\ StrToNat(slugMap[i].key, 0) < StrToNat(key, 0) })
  ELSE Len(slugMap) + 1

\* the place of a new own property among those there, k being its position
InsertAt(slugMap, k, entry) ==
  SubSeq(slugMap, 1, k - 1) \o <<entry>> \o SubSeq(slugMap, k, Len(slugMap))

\* slugMap[key] = value: an own property keeps its place and gets the value,
\* a new one is added
PutOwn(slugMap, key, value) ==
  IF HasOwn(slugMap, key)
  THEN [ i \in DOMAIN slugMap |->
           IF slugMap[i].key = key THEN [key |-> key, value |-> value] ELSE slugMap[i] ]
  ELSE InsertAt(slugMap, InsertPos(slugMap, key), [key |-> key, value |-> value])

\* ------------------------------------------------------ metadata extractor
DocIdAt(markdownFilePath) ==
  CHOOSE i \in DocIds : AbsPath(Catalog[i].path) = markdownFilePath

\* extractRawFrontmatter: the parsed header, or an error naming the file
extractRawFrontmatter(markdownFilePath) ==
  LET f == Catalog[DocIdAt(markdownFilePath)]
  IN  IF f.parses
      THEN [ok |-> TRUE, data |-> f.raw, err |-> NoError]
      ELSE [ok |-> FALSE, data |-> f.raw,
            err |-> Err("Failed to parse YAML frontmatter", markdownFilePath,
                        "", <<>>, <<>>, NoPath)]

\* ------------------------------------------------------------ tree walker
\* A file system: its entries, each with its absolute path and whether it is a
\* directory (Dirent.isDirectory(): a symbolic link is not one), in the order
\* the directories list them, and the directories fs.readdir fails on.
Dirent(path, isDirectory) == [path |-> path, isDirectory |-> isDirectory]

Parent(path) == SubSeq(path, 1, Len(path) - 1)

\* entry.name
EntryName(entry) == entry.path[Len(entry.path)]

\* the vault directory, or a directory among the entries
IsDirectory(fs, path) ==
  \/ path = VaultPath
  \/ \E i \in DOMAIN fs.entries : fs.entries[i].path = path /\ fs.entries[i].isDirectory

\* fs.readdir(currentPath, { withFileTypes: true }): it fails on a directory
\* that cannot be read and on a path that is no directory
readdir(fs, currentPath) ==
  IF currentPath \in fs.unreadable \/ ~IsDirectory(fs, currentPath)
  THEN [ok |-> FALSE, entries |-> <<>>,
        err |-> Err("readdir", currentPath, "", <<>>, <<>>, NoPath)]
  ELSE [ok |-> TRUE,
        entries |-> SelectSeq(fs.entries, LAMBDA e : Parent(e.path) = currentPath),
        err |-> NoError]

\* s.replace(/^\./, '')
StripLeadingDot(s) == IF s # <<>> /\ Head(s) = "." THEN Tail(s) ELSE s

\* the extensions argument: null, or an array of strings
NullExts == [isNull |-> TRUE, list |-> <<>>]

Exts(list) == [isNull |-> FALSE, list |-> list]

\* extensions &&= extensions.map(ext => ext.replace(/^\./, ''))
NormalizeExts(extensions) ==
  IF extensions.isNull THEN extensions
  ELSE Exts([ i \in DOMAIN extensions.list |-> StripLeadingDot(extensions.list[i]) ])

\* extensions == null || extensions.includes(extension)
ExtensionMatches(extensions, name) ==
  \/ extensions.isNull
  \/ \E i \in DOMAIN extensions.list :
       extensions.list[i] = StripLeadingDot(ExtName(<<name>>))

\* the outcome of a walk: the files collected, or the error of the readdir
\* that failed (the promise rejects and carries no file list)
Walked(ok, files, err) == [ok |-> ok, files |-> files, err |-> err]

RECURSIVE walk(_, _, _, _)
RECURSIVE walkEntries(_, _, _, _, _)
\* a failed readdir is caught and the files collected so far are returned
AfterSubWalk_KeepsPartial(sub, fs, entries, i, extensions, files) ==
  IF ~sub.ok THEN walkEntries(fs, entries, i + 1, extensions, files)
  ELSE walkEntries(fs, entries, i + 1, extensions, sub.files)

\* await walk(fullPath) in the loop of walk: a rejection ends the walk
AfterSubWalk(sub, fs, entries, i, extensions, files) ==
  IF ~sub.ok THEN sub
  ELSE walkEntries(fs, entries, i + 1, extensions, sub.files)

\* every entry that is not a directory is taken, whatever its extension
TakeFile_IgnoresExtension(extensions, entry, files) == Append(files, entry.path)

\* the else branch of the loop of walk: files.push(fullPath) on a match
TakeFile(extensions, entry, files) ==
  IF ExtensionMatches(extensions, EntryName(entry))
  THEN Append(files, entry.path)
  ELSE files

\* the loop of walk over the entries of one directory, from entry i on
walkEntries(fs, entries, i, extensions, files) ==
  IF i > Len(entries) THEN Walked(TRUE, files, NoError)
  ELSE IF entries[i].isDirectory
  THEN Once({ AfterSubWalk(sub, fs, entries, i, extensions, files) :
                sub \in { walk(fs, entries[i].path, extensions, files) } })
  ELSE walkEntries(fs, entries, i + 1, extensions,
                   TakeFile(extensions, entries[i], files))

\* walk(currentPath), dir being the outcome of its readdir
AfterReaddir(dir, fs, extensions, files) ==
  IF ~dir.ok THEN Walked(FALSE, <<>>, dir.err)
  ELSE walkEntries(fs, dir.entries, 1, extensions, files)

walk(fs, currentPath, extensions, files) ==
  Once({ AfterReaddir(dir, fs, extensions, files) : dir \in { readdir(fs, currentPath) } })

\* walkDirectoryWithFilter(dirPath, extensions) on the file system fs
walkDirectoryWithFilter(fs, dirPath, extensions) ==
  walk(fs, dirPath, NormalizeExts(extensions), <<>>)

\* ---------------------------------------------------------- the index build
\* the gate without the production rule
displayBlog_IgnoresStatus(rawFrontmatter, nodeEnv) == Truthy(rawFrontmatter.blog)

\* the gate with the production rule alone: outside production every document
\* is displayed
displayBlog_ProductionOnly(rawFrontmatter, nodeEnv) ==
  IF nodeEnv = "production"
  THEN /\ Truthy(rawFrontmatter.blog)
       /\ rawFrontmatter.status.t = "string"
       /\ rawFrontmatter.status.v = S_published
  ELSE TRUE

\* lines 57-61 of createBlogSlugMap: the visibility gate
displayBlog(rawFrontmatter, nodeEnv) ==
  IF nodeEnv = "production"
  THEN /\ Truthy(rawFrontmatter.blog)
       /\ rawFrontmatter.status.t = "string"
       /\ rawFrontmatter.status.v = S_published
  ELSE Truthy(rawFrontmatter.blog)

\* an explicit slug is normalized like a file name
ResolveSlug_Normalizes(frontmatter, relativePath) ==
  IF Truthy(frontmatter.slug) THEN createSlugNameFromFilePath(<<frontmatter.slug.v>>)
  ELSE createSlugNameFromFilePath(relativePath)

\* frontmatter.slug || createSlugNameFromFilePath(relativePath)
ResolveSlug(frontmatter, relativePath) ==
  IF Truthy(frontmatter.slug) THEN frontmatter.slug.v
  ELSE createSlugNameFromFilePath(relativePath)

\* the insertion without the collision check: the last write wins
InsertDescriptor_LastWriteWins(slugMap, slug, relativePath, frontmatter, markdownFile) ==
  [ok |-> TRUE,
   map |-> PutOwn(slugMap, slug, [slug |-> slug, filePath |-> relativePath,
                                  frontmatter |-> frontmatter]),
   err |-> NoError]

\* the insertion with a silent collision check: the first write wins
InsertDescriptor_FirstWriteWins(slugMap, slug, relativePath, frontmatter, markdownFile) ==
  [ok |-> TRUE,
   map |-> IF Lookup(slugMap, slug).kind # "undefined" THEN slugMap
           ELSE PutOwn(slugMap, slug, [slug |-> slug, filePath |-> relativePath,
                                       frontmatter |-> frontmatter]),
   err |-> NoError]

\* lines 66-74 of createBlogSlugMap: the collision check and the insertion
InsertDescriptor(slugMap, slug, relativePath, frontmatter, markdownFile) ==
  LET found == Lookup(slugMap, slug)
  IN  IF found.kind # "undefined"
      THEN [ok |-> FALSE, map |-> slugMap,
            err |-> Err("Duplicate slug", markdownFile, "", <<>>, slug,
                        IF found.kind = "own" THEN SomePath(found.desc[1].filePath)
                        ELSE NoPath)]
      ELSE [ok |-> TRUE,
            map |-> PutOwn(slugMap, slug, [slug |-> slug, filePath |-> relativePath,
                                           frontmatter |-> frontmatter]),
            err |-> NoError]

\* the outcome of one iteration: whether it went through, the slug map after
\* it, the error it threw, whether the file reached the validator
Step(ok, map, err, validated) ==
  [ok |-> ok, map |-> map, err |-> err, validated |-> validated]

\* lines 66-74 of createBlogSlugMap, for a file whose frontmatter is valid
ResolveAndInsert(ins) == Step(ins.ok, ins.map, ins.err, TRUE)

\* line 64 of createBlogSlugMap and what follows it, val being the outcome of
\* validateAndNormalizeFrontmatter
AfterValidate(val, markdownFile, relativePath, slugMap) ==
  IF ~val.ok
  THEN Step(FALSE, slugMap, val.err, TRUE)
  ELSE Once({ ResolveAndInsert(ins) :
                ins \in { InsertDescriptor(slugMap, slug, relativePath, val.fm, markdownFile) :
                            slug \in { ResolveSlug(val.fm, relativePath) } } })

\* the same with the validation moved before the gate
AfterExtract_ValidatesFirst(ex, markdownFile, relativePath, slugMap, nodeEnv) ==
  IF ~ex.ok
  THEN Step(FALSE, slugMap, ex.err, FALSE)
  ELSE IF ~validateAndNormalizeFrontmatter(ex.data, markdownFile).ok
  THEN Step(FALSE, slugMap, validateAndNormalizeFrontmatter(ex.data, markdownFile).err, TRUE)
  ELSE IF ~displayBlog(ex.data, nodeEnv)
  THEN Step(TRUE, slugMap, NoError, TRUE)
  ELSE AfterValidate(validateAndNormalizeFrontmatter(ex.data, markdownFile),
                     markdownFile, relativePath, slugMap)

\* lines 57-64 of createBlogSlugMap, ex being the outcome of
\* extractRawFrontmatter: a throw propagates, the gate skips the file
\* (continue), and only a displayed file is validated
AfterExtract(ex, markdownFile, relativePath, slugMap, nodeEnv) ==
  IF ~ex.ok
  THEN Step(FALSE, slugMap, ex.err, FALSE)
  ELSE IF ~displayBlog(ex.data, nodeEnv)
  THEN Step(TRUE, slugMap, NoError, FALSE)
  ELSE Once({ AfterValidate(val, markdownFile, relativePath, slugMap) :
                val \in { validateAndNormalizeFrontmatter(ex.data, markdownFile) } })

\* one iteration of the loop of createBlogSlugMap
ProcessFile(markdownFile, slugMap, nodeEnv) ==
  Once({ AfterExtract(ex, markdownFile, PathRelative(VaultPath, markdownFile),
                      slugMap, nodeEnv) :
           ex \in { extractRawFrontmatter(markdownFile) } })

\* the files handed so far to extractRawFrontmatter and to
\* validateAndNormalizeFrontmatter
Logged(log, markdownFile, validated) ==
  [extracted |-> Append(log.extracted, markdownFile),
   validated |-> IF validated THEN Append(log.validated, markdownFile)
                 ELSE log.validated]

Built(ok, map, err, log) ==
  [ok |-> ok, map |-> map, err |-> err,
   extracted |-> log.extracted, validated |-> log.validated]

RECURSIVE BuildFrom(_, _, _, _, _)
RECURSIVE BuildAfter(_, _, _, _, _)
\* a best-effort loop: a file that throws is skipped and the build goes on
BuildAfter_SkipsFailures(step, markdownFiles, i, nodeEnv, log) ==
  BuildFrom(markdownFiles, i + 1, step.map, nodeEnv,
            Logged(log, markdownFiles[i], step.validated))

\* the metadata of all files is read ahead: a throw finds the files after the
\* failing one extracted
BuildAfter_ExtractsAhead(step, markdownFiles, i, nodeEnv, log) ==
  IF ~step.ok
  THEN Built(FALSE, step.map, step.err,
             [extracted |-> log.extracted \o SubSeq(markdownFiles, i, Len(markdownFiles)),
              validated |-> Logged(log, markdownFiles[i], step.validated).validated])
  ELSE BuildFrom(markdownFiles, i + 1, step.map, nodeEnv,
                 Logged(log, markdownFiles[i], step.validated))

\* the loop of createBlogSlugMap after iteration i ended with step: a throw
\* ends the build, otherwise the loop goes on with the next file
BuildAfter(step, markdownFiles, i, nodeEnv, log) ==
  IF ~step.ok
  THEN Built(FALSE, step.map, step.err, Logged(log, markdownFiles[i], step.validated))
  ELSE BuildFrom(markdownFiles, i + 1, step.map, nodeEnv,
                 Logged(log, markdownFiles[i], step.validated))

\* the map is handed out as soon as it holds a descriptor, the rest of the
\* files not yet processed
BuildFrom_ReturnsEarly(markdownFiles, i, slugMap, nodeEnv, log) ==
  IF i > Len(markdownFiles) \/ slugMap # <<>>
  THEN Built(TRUE, slugMap, NoError, log)
  ELSE Once({ BuildAfter(step, markdownFiles, i, nodeEnv, log) :
                step \in { ProcessFile(markdownFiles[i], slugMap, nodeEnv) } })

\* the loop of createBlogSlugMap from file i on
BuildFrom(markdownFiles, i, slugMap, nodeEnv, log) ==
  IF i > Len(markdownFiles)
  THEN Built(TRUE, slugMap, NoError, log)
  ELSE Once({ BuildAfter(step, markdownFiles, i, nodeEnv, log) :
                step \in { ProcessFile(markdownFiles[i], slugMap, nodeEnv) } })

\* the part of createBlogSlugMap that runs once the walk has resolved
createBlogSlugMap(markdownFiles, nodeEnv) ==
  BuildFrom(markdownFiles, 1, <<>>, nodeEnv, [extracted |-> <<>>, validated |-> <<>>])

\* ---------------------------------------------------------- read operations
\* Array.prototype.toSorted(blog => new Date(blog.frontmatter.published).getTime()):
\* the callback ignores its second argument and returns the first one's time.
\* It is a consistent comparator only when it returns 0 for every element, and
\* then the order is kept; otherwise ECMAScript leaves the order to the
\* implementation, so every arrangement of the elements is a possible result.
PublishedTime(blog) == DateParse(ToStr(blog.frontmatter.published))

Arrangements(posts) ==
  { [ i \in DOMAIN posts |-> posts[f[i]] ] :
      f \in { g \in [DOMAIN posts -> DOMAIN posts] :
                \A i, j \in DOMAIN posts : i # j => g[i] # g[j] } }

toSorted(posts) ==
  IF \A i \in DOMAIN posts : PublishedTime(posts[i]).nan \/ PublishedTime(posts[i]).time = 0
  THEN { posts }
  ELSE Arrangements(posts)

NoLookup == [kind |-> "undefined", desc |-> <<>>]

Result(state, name, posts, slugs, found, err) ==
  [state |-> state, name |-> name, posts |-> posts, slugs |-> slugs,
   found |-> found, err |-> err, arg |-> <<>>]

\* the outcome r of the read operation o
Settle(r, o) == [r EXCEPT !.arg = o.arg]

NoResult == Result("none", "", <<>>, <<>>, NoLookup, NoError)

Failed(err) == Result("error", "", <<>>, <<>>, NoLookup, err)

\* getAllBlogPosts, once the slug map is there
getAllBlogPosts(slugMap) ==
  { Result("ok", "getAllBlogPosts", sorted, <<>>, NoLookup, NoError) :
      sorted \in toSorted(Values(slugMap)) }

\* getAllBlogSlugs, once the slug map is there
getAllBlogSlugs(slugMap) ==
  { Result("ok", "getAllBlogSlugs", <<>>, Keys(slugMap), NoLookup, NoError) }

\* findBlogPostBySlug, once the slug map is there
findBlogPostBySlug(slugMap, slug) ==
  { Result("ok", "findBlogPostBySlug", <<>>, <<>>, Lookup(slugMap, slug), NoError) }

\* the arguments findBlogPostBySlug is called with
ProbeSlugs == { <<"a">>, S_constructor }

Ops == { [name |-> n, arg |-> <<>>] : n \in { "getAllBlogPosts", "getAllBlogSlugs" } }
       \cup { [name |-> "findBlogPostBySlug", arg |-> s] : s \in ProbeSlugs }

ReadFrom(op, slugMap) ==
  CASE op.name = "getAllBlogPosts" -> getAllBlogPosts(slugMap)
    [] op.name = "getAllBlogSlugs" -> getAllBlogSlugs(slugMap)
    [] OTHER                       -> findBlogPostBySlug(slugMap, op.arg)

\* ------------------------------------------------------------------- state
VARIABLES
  nodeEnv,        \* process.env.NODE_ENV
  rootReadable,   \* whether fs.readdir of the vault directory succeeds
  subReadable,    \* whether fs.readdir of its subdirectories succeeds
  vault,          \* the documents of the vault, as ids, in the order their
                  \* directories list them
  cachedSlugMap,  \* _cachedSlugMap: [isNull, map]
  pc,             \* per caller: "idle", "walking" (awaiting the walk) or
                  \* "built" (createBlogSlugMap returned, assignment pending)
  built,          \* per caller: the slug map createBlogSlugMap returned
  returned,       \* the outcome of the read operation that settled last
  calls,          \* read operations invoked so far
  walkCount,      \* calls of walkDirectoryWithFilter so far
  extractCount,   \* per document: calls of extractRawFrontmatter so far
  validatedDocs,  \* documents handed to validateAndNormalizeFrontmatter so far
  call            \* a direct call of one of the helpers: [fn, arg, out]

vars == << nodeEnv, rootReadable, subReadable, vault, cachedSlugMap, pc, built,
           returned, calls, walkCount, extractCount, validatedDocs, call >>

Callers == 1..NumCallers

NullMap == [isNull |-> TRUE, map |-> <<>>]

SomeMap(m) == [isNull |-> FALSE, map |-> m]

\* a cache that is never consulted
CacheIsNull_Always == TRUE

\* a failure counts as a filled cache
CacheIsNull_UnlessFailed == cachedSlugMap.isNull /\ returned.state # "error"

\* _cachedSlugMap === null
CacheIsNull == cachedSlugMap.isNull

\* Callers are interchangeable: the one that invokes the next read operation
\* is the first that has none in progress.
NextCaller(c) == pc[c] = "idle" /\ \A d \in Callers : d < c => pc[d] # "idle"

\* the vaults: up to MaxFiles distinct documents in any order
RECURSIVE VaultsOfLen(_)
VaultsOfLen(n) ==
  IF n = 0 THEN { <<>> }
  ELSE { Append(v, d) : v \in VaultsOfLen(n - 1), d \in DocIds }

Distinct(v) == \A i, j \in DOMAIN v : i # j => v[i] # v[j]

\* the directory of a document, relative to the vault
DirOf(d) == Parent(Catalog[d].path)

\* a directory is listed once: the documents of a subdirectory follow one
\* another
Contiguous(v) ==
  \A i, j, k \in DOMAIN v :
    i < j /\ j < k /\ DirOf(v[i]) = DirOf(v[k]) /\ DirOf(v[i]) # <<>>
      => DirOf(v[j]) = DirOf(v[i])

Vaults ==
  UNION { { v \in VaultsOfLen(n) : Distinct(v) /\ Contiguous(v) } : n \in 0..MaxFiles }

\* the directories above a file, outermost first
DirsAbove(rel) == [ k \in 1..(Len(rel) - 1) |-> Dirent(AbsPath(SubSeq(rel, 1, k)), TRUE) ]

\* the entries of the vault: each document at its path, each subdirectory where
\* its first document is
RECURSIVE VaultEntries(_, _)
VaultEntries(v, i) ==
  IF i > Len(v) THEN <<>>
  ELSE SelectSeq(DirsAbove(Catalog[v[i]].path),
                 LAMBDA e : \A j \in 1..(i - 1) :
                              \A k \in DOMAIN DirsAbove(Catalog[v[j]].path) :
                                DirsAbove(Catalog[v[j]].path)[k] # e)
       \o << Dirent(AbsPath(Catalog[v[i]].path), FALSE) >>
       \o VaultEntries(v, i + 1)

\* the file system the build runs on
FileSystem ==
  [entries    |-> VaultEntries(vault, 1),
   unreadable |-> (IF rootReadable THEN {} ELSE { VaultPath })
                  \cup (IF subReadable THEN {}
                        ELSE { e.path : e \in { x \in Range(VaultEntries(vault, 1)) :
                                                  x.isDirectory } })]

\* no direct call of a helper
NoCall == [fn |-> "none", arg |-> <<>>, done |-> FALSE, out |-> <<>>]

\* the extensions createBlogSlugMap passes to the walker
MarkdownExts == Exts(<< <<"m","d">>, <<"m","d","x">> >>)

Init ==
  /\ nodeEnv \in { "production", "development" }
  /\ rootReadable \in BOOLEAN
  /\ vault \in Vaults
  /\ (~rootReadable => vault = <<>>)
  /\ subReadable \in BOOLEAN
  /\ (~subReadable => \E i \in DOMAIN vault : DirOf(vault[i]) # <<>>)
  /\ call = NoCall
  /\ cachedSlugMap = NullMap
  /\ pc = [c \in Callers |-> "idle"]
  /\ built = [c \in Callers |-> <<>>]
  /\ returned = NoResult
  /\ calls = 0
  /\ walkCount = 0
  /\ extractCount = [d \in DocIds |-> 0]
  /\ validatedDocs = {}

\* await walkDirectoryWithFilter(vaultPath, ["md", "mdx"])
WalkOfVault ==
  Once({ walkDirectoryWithFilter(fs, VaultPath, MarkdownExts) : fs \in { FileSystem } })

Count(seq, x) == Cardinality({ i \in DOMAIN seq : seq[i] = x })

\* The three read operations start alike, with await getBlogSlugMap(), and
\* differ only in what they compute from the map: which of them the caller
\* invoked (o) shows when it settles.

\* a read that leaves the cached collection in the order it returns
ReadCached_OrdersInPlace(c, o) ==
  /\ NextCaller(c)
  /\ calls < MaxCalls
  /\ ~CacheIsNull
  /\ \E r \in ReadFrom(o, cachedSlugMap.map) :
       /\ returned' = Settle(r, o)
       /\ cachedSlugMap' =
            IF r.name = "getAllBlogPosts"
            THEN SomeMap([ i \in DOMAIN r.posts |-> [key |-> r.posts[i].slug, value |-> r.posts[i]] ])
            ELSE cachedSlugMap
  /\ calls' = calls + 1
  /\ UNCHANGED << nodeEnv, rootReadable, subReadable, vault, pc,
                  built, walkCount, extractCount, validatedDocs, call >>

\* A caller invokes read operation o while the cache holds a map:
\* getBlogSlugMap returns it without a build.
ReadCached(c, o) ==
  /\ NextCaller(c)
  /\ calls < MaxCalls
  /\ ~CacheIsNull
  /\ \E r \in ReadFrom(o, cachedSlugMap.map) : returned' = Settle(r, o)
  /\ calls' = calls + 1
  /\ UNCHANGED << nodeEnv, rootReadable, subReadable, vault, cachedSlugMap, pc,
                  built, walkCount, extractCount, validatedDocs, call >>

\* A caller invokes a read operation while the cache is null: getBlogSlugMap
\* calls createBlogSlugMap, which starts the walk and awaits it.
StartBuild(c) ==
  /\ NextCaller(c)
  /\ calls < MaxCalls
  /\ CacheIsNull
  /\ pc' = [pc EXCEPT ![c] = "walking"]
  /\ calls' = calls + 1
  /\ walkCount' = walkCount + 1
  /\ UNCHANGED << nodeEnv, rootReadable, subReadable, vault, cachedSlugMap, built,
                  returned, extractCount, validatedDocs, call >>

\* The walk rejects: the error propagates through createBlogSlugMap and
\* getBlogSlugMap to the read operation.
WalkFails(c) ==
  /\ pc[c] = "walking"
  /\ \E w \in { WalkOfVault } :
       /\ ~w.ok
       /\ returned' = Failed(w.err)
  /\ pc' = [pc EXCEPT ![c] = "idle"]
  /\ UNCHANGED << nodeEnv, rootReadable, subReadable, vault, cachedSlugMap, built,
                  calls, walkCount, extractCount, validatedDocs, call >>

\* a build that threw is left pending: its promise never settles
BuildEnds_HangsOnError(c, b) ==
  IF b.ok
  THEN /\ extractCount' = [d \in DocIds |->
                             extractCount[d] + Count(b.extracted, AbsPath(Catalog[d].path))]
       /\ validatedDocs' = validatedDocs \cup
                             { DocIdAt(b.validated[i]) : i \in DOMAIN b.validated }
       /\ pc' = [pc EXCEPT ![c] = "built"]
       /\ built' = [built EXCEPT ![c] = b.map]
       /\ UNCHANGED returned
  ELSE UNCHANGED << extractCount, validatedDocs, pc, built, returned >>

\* createBlogSlugMap ended with b: it threw (the read operation rejects) or it
\* returned the map
BuildEnds(c, b) ==
  /\ extractCount' = [d \in DocIds |->
                        extractCount[d] + Count(b.extracted, AbsPath(Catalog[d].path))]
  /\ validatedDocs' = validatedDocs \cup
                        { DocIdAt(b.validated[i]) : i \in DOMAIN b.validated }
  /\ IF b.ok
     THEN /\ pc' = [pc EXCEPT ![c] = "built"]
          /\ built' = [built EXCEPT ![c] = b.map]
          /\ UNCHANGED returned
     ELSE /\ pc' = [pc EXCEPT ![c] = "idle"]
          /\ returned' = Failed(b.err)
          /\ UNCHANGED built

\* The walk resolves: the loop of createBlogSlugMap runs over all files without
\* yielding.
WalkResolves(c) ==
  /\ pc[c] = "walking"
  /\ \E w \in { WalkOfVault } :
       /\ w.ok
       /\ \E b \in { createBlogSlugMap(w.files, nodeEnv) } : BuildEnds(c, b)
  /\ UNCHANGED << nodeEnv, rootReadable, subReadable, vault, cachedSlugMap, calls,
                  walkCount, call >>

\* getBlogSlugMap resumes after its await: it stores the map in the cache and
\* returns it, and the read operation o computes its value from it.
Publish(c, o) ==
  /\ pc[c] = "built"
  /\ cachedSlugMap' = SomeMap(built[c])
  /\ \E r \in ReadFrom(o, built[c]) : returned' = Settle(r, o)
  /\ pc' = [pc EXCEPT ![c] = "idle"]
  /\ built' = [built EXCEPT ![c] = <<>>]
  /\ UNCHANGED << nodeEnv, rootReadable, subReadable, vault, calls, walkCount,
                  extractCount, validatedDocs, call >>

Next ==
  \/ \E c \in Callers, o \in Ops : ReadCached(c, o)
  \/ \E c \in Callers : StartBuild(c)
  \/ \E c \in Callers : WalkFails(c)
  \/ \E c \in Callers : WalkResolves(c)
  \/ \E c \in Callers, o \in Ops : Publish(c, o)

Spec == Init /\ [][Next]_vars

\* Read operations awaited one after another: a caller invokes one only when
\* no other is in progress.
NoneInProgress == \A c \in Callers : pc[c] = "idle"

NextSeq ==
  \/ \E c \in Callers, o \in Ops : NoneInProgress /\ ReadCached(c, o)
  \/ \E c \in Callers : NoneInProgress /\ StartBuild(c)
  \/ \E c \in Callers : WalkFails(c)
  \/ \E c \in Callers : WalkResolves(c)
  \/ \E c \in Callers, o \in Ops : Publish(c, o)

SpecSeq == Init /\ [][NextSeq]_vars

\* The event loop runs a continuation that is ready: a walk that has settled
\* resumes createBlogSlugMap, and a build that has returned resumes
\* getBlogSlugMap and the read operation.  Callers need not invoke anything.
Resume ==
  \E c \in Callers :
    \/ WalkFails(c)
    \/ WalkResolves(c)
    \/ \E o \in Ops : Publish(c, o)

Fairness == WF_vars(Resume)

SpecLive == Init /\ [][Next]_vars /\ Fairness

\* ------------------------------------------------------ direct helper calls
\* The helpers of the build called on their own, on arguments drawn from the
\* values a metadata header, a file name or a directory tree can hold.
buildVars == << nodeEnv, rootReadable, subReadable, vault, cachedSlugMap, pc, built,
                returned, calls, walkCount, extractCount, validatedDocs >>

Call(fn, arg) == [fn |-> fn, arg |-> arg, done |-> FALSE, out |-> <<>>]

S_single_tag == <<"s","i","n","g","l","e","-","t","a","g">>
S_My_Slug    == <<"M","y"," ","S","l","u","g","!">>
S_part1      == <<"p","a","r","t","1">>
S_part2      == <<"p","a","r","t","2">>

\* a valid published post without optional fields
BaseRaw == Raw(Bool(TRUE), Str(S_published), Str(D_0110), Undefined, Undefined)

\* raw values of published and updated
DateValues ==
  { Undefined, Str(<<>>), Num(0), Bool(FALSE), Bool(TRUE),
    Str(D_0110), Str(D_0116), Str(D_bad), Arr(<<Str(D_0120)>>) }

\* raw values of the other fields
FieldValues ==
  { Undefined, Str(<<>>), Num(0), Bool(FALSE), Bool(TRUE), Num(123), Num(456),
    Str(S_single_tag), Str(S_My_Slug), Str(<<"a">>),
    Arr(<<Str(S_part1), Str(S_part2)>>), Arr(<<Num(1), Str(<<"a">>)>>), Arr(<<>>) }

\* raw values of status: absent, the declared ones, and others
StatusValues ==
  { Undefined, Str(S_published), Str(S_draft), Str(S_idea), Str(S_archived),
    Str(<<>>), Num(123), Bool(TRUE), Arr(<<Str(S_draft)>>) }

RawInputs ==
  { [BaseRaw EXCEPT !.published = p, !.updated = u] : p \in DateValues, u \in DateValues }
  \cup { [BaseRaw EXCEPT ![f] = v] :
           f \in { "blog", "title", "description", "status", "category", "tags", "slug" },
           v \in FieldValues }

\* the files the metadata is said to come from
InputPaths == { Catalog[13].path, Catalog[2].path }

ValidateCalls ==
  { Call("validateAndNormalizeFrontmatter", [rawData |-> r, filePath |-> AbsPath(f)]) :
      r \in RawInputs, f \in { Catalog[13].path } }

\* one iteration of the loop of createBlogSlugMap on an empty slug map
IterationCalls ==
  { Call("createBlogSlugMap.iteration", [rawData |-> r, markdownFile |-> AbsPath(f)]) :
      r \in { [BaseRaw EXCEPT !.slug = v] : v \in FieldValues }
           \cup { [BaseRaw EXCEPT !.status = v] : v \in StatusValues },
      f \in InputPaths }

\* file names: up to MaxNameLen characters, then nothing or an extension
NameChars == { "a", "B", "1", "-", " ", ".", "!" }

RECURSIVE NamesOfLen(_)
NamesOfLen(n) ==
  IF n = 0 THEN { <<>> }
  ELSE { Append(s, c) : s \in NamesOfLen(n - 1), c \in NameChars }

FileNames ==
  { stem \o ext :
      stem \in UNION { NamesOfLen(n) : n \in 1..MaxNameLen },
      ext \in { <<>>, <<".","m","d">>, <<".","m","d","x">> } }
  \ { <<".">>, <<".",".">> }

SlugNameCalls ==
  { Call("createSlugNameFromFilePath", [filePath |-> dir \o <<name>>]) :
      dir \in { <<>>, << <<"s","u","b">> >> }, name \in FileNames }

\* the entries a directory tree below the vault may hold, in listing order:
\* files with the extensions md, mdx, txt, MD and without one, a hidden file,
\* directories two levels deep, and a directory whose name ends in .md
TreeEntries == <<
  Dirent(AbsPath(<< <<"a",".","m","d">> >>), FALSE),
  Dirent(AbsPath(<< <<"s","u","b">> >>), TRUE),
  Dirent(AbsPath(<< <<"s","u","b">>, <<"x",".","m","d">> >>), FALSE),
  Dirent(AbsPath(<< <<"s","u","b">>, <<"d","e","e","p">> >>), TRUE),
  Dirent(AbsPath(<< <<"s","u","b">>, <<"d","e","e","p">>, <<"z",".","m","d","x">> >>), FALSE),
  Dirent(AbsPath(<< <<"s","u","b">>, <<"y",".","t","x","t">> >>), FALSE),
  Dirent(AbsPath(<< <<"b",".","M","D">> >>), FALSE),
  Dirent(AbsPath(<< <<"R","E","A","D","M","E">> >>), FALSE),
  Dirent(AbsPath(<< <<".","m","d">> >>), FALSE),
  Dirent(AbsPath(<< <<"d",".","m","d">> >>), TRUE),
  Dirent(AbsPath(<< <<"d",".","m","d">>, <<"w",".","m","d">> >>), FALSE)
>>

TreeFiles == { e \in Range(TreeEntries) : ~e.isDirectory }

TreeDirs == { e \in Range(TreeEntries) : e.isDirectory }

\* the directories of the tree above an entry
Ancestors(e) ==
  { d \in TreeDirs : Len(d.path) < Len(e.path) /\ SubSeq(e.path, 1, Len(d.path)) = d.path }

\* the trees: up to MaxEntries files, the directories above them and any
\* others with their parents, at most one directory unreadable
FileSystems ==
  { [entries    |-> SelectSeq(TreeEntries, LAMBDA e : e \in files \cup dirs),
     unreadable |-> bad] :
      files \in { F \in SUBSET TreeFiles : Cardinality(F) <= MaxEntries },
      dirs  \in { D \in SUBSET TreeDirs : \A d \in D : Ancestors(d) \subseteq D },
      bad   \in { B \in SUBSET ({ d.path : d \in TreeDirs } \cup { VaultPath }) :
                    Cardinality(B) <= 1 } }

\* the extensions argument
ExtensionLists ==
  { NullExts, Exts(<<>>), Exts(<< <<"m","d">> >>), Exts(<< <<".","m","d">> >>),
    Exts(<< <<"m","d">>, <<"m","d","x">> >>), Exts(<< <<"M","D">> >>),
    Exts(<< <<>> >>), Exts(<< <<"t","x","t">>, <<".","m","d","x">> >>) }

WalkCalls ==
  { Call("walkDirectoryWithFilter", [fs |-> fs, dirPath |-> dir, extensions |-> exts]) :
      fs \in { f \in FileSystems :
                 /\ \A e \in Range(f.entries) : Ancestors(e) \subseteq Range(f.entries)
                 /\ \A b \in f.unreadable :
                      b = VaultPath \/ \E e \in Range(f.entries) : e.path = b },
      dir \in { VaultPath, AbsPath(<< <<"s","u","b">> >>) },
      exts \in ExtensionLists }

Calls == ValidateCalls \cup IterationCalls \cup SlugNameCalls \cup WalkCalls

InitPure ==
  /\ nodeEnv \in { "production", "development" }
  /\ rootReadable = TRUE
  /\ subReadable = TRUE
  /\ vault = <<>>
  /\ cachedSlugMap = NullMap
  /\ pc = [c \in Callers |-> "idle"]
  /\ built = [c \in Callers |-> <<>>]
  /\ returned = NoResult
  /\ calls = 0
  /\ walkCount = 0
  /\ extractCount = [d \in DocIds |-> 0]
  /\ validatedDocs = {}
  /\ call \in Calls
  /\ (nodeEnv = "production" => call.fn = "createBlogSlugMap.iteration")

Return(out) ==
  /\ call' = [call EXCEPT !.done = TRUE, !.out = out]
  /\ UNCHANGED buildVars

ApplyValidate ==
  /\ call.fn = "validateAndNormalizeFrontmatter"
  /\ ~call.done
  /\ Return(validateAndNormalizeFrontmatter(call.arg.rawData, call.arg.filePath))

ApplyIteration ==
  /\ call.fn = "createBlogSlugMap.iteration"
  /\ ~call.done
  /\ Return(AfterExtract([ok |-> TRUE, data |-> call.arg.rawData, err |-> NoError],
                         call.arg.markdownFile,
                         PathRelative(VaultPath, call.arg.markdownFile), <<>>, nodeEnv))

ApplySlugName ==
  /\ call.fn = "createSlugNameFromFilePath"
  /\ ~call.done
  /\ Return(createSlugNameFromFilePath(call.arg.filePath))

ApplyWalk ==
  /\ call.fn = "walkDirectoryWithFilter"
  /\ ~call.done
  /\ Return(walkDirectoryWithFilter(call.arg.fs, call.arg.dirPath, call.arg.extensions))

NextPure ==
  \/ ApplyValidate
  \/ ApplyIteration
  \/ ApplySlugName
  \/ ApplyWalk

SpecPure == InitPure /\ [][NextPure]_vars

\* ===================================================================== claims
\* What the claims speak of, stated without the build's own operators.

\* the documents of the vault
VaultDocs == { Catalog[vault[i]] : i \in DOMAIN vault }

\* a raw blog value that Boolean() turns into false
BlogOff(blog) ==
  \/ blog.t = "undefined"
  \/ blog.t = "boolean" /\ blog.v = FALSE
  \/ blog.t = "number" /\ blog.v = 0
  \/ blog.t = "string" /\ blog.v = <<>>

StatusIsPublished(status) == status.t = "string" /\ status.v = S_published

\* the visibility rule: blog coerces to true, and in production the raw
\* status is 'published'
IsCandidate(f) ==
  /\ ~BlogOff(f.raw.blog)
  /\ (nodeEnv # "production" \/ StatusIsPublished(f.raw.status))

Candidates == { f \in VaultDocs : IsCandidate(f) }

\* the slug maps successful builds have produced: the cached one and those
\* whose assignment to the cache is pending
ProducedMaps ==
  (IF cachedSlugMap.isNull THEN {} ELSE { cachedSlugMap.map })
  \cup { built[c] : c \in { d \in Callers : pc[d] = "built" } }

Indexed(slugMap, f) == \E i \in DOMAIN slugMap : slugMap[i].value.filePath = f.path

\* C1: after a successful build a document of the vault has a descriptor in
\* the index exactly if its raw blog coerces to true and, in production, its
\* raw status is 'published'.
C1_IndexedIffVisible ==
  \A m \in ProducedMaps : \A f \in VaultDocs : Indexed(m, f) <=> IsCandidate(f)

\* a production build succeeded on a vault with a published post and a
\* blog:true draft
C1_Witness ==
  /\ nodeEnv = "production"
  /\ ~cachedSlugMap.isNull
  /\ cachedSlugMap.map # <<>>
  /\ \E f \in VaultDocs : f.raw.blog = Bool(TRUE) /\ f.raw.status = Str(S_draft)

\* C2: only documents that pass the gate reach the validator, and a missing or
\* invalid date is only ever reported for a candidate.
C2_GateBeforeValidation ==
  /\ \A d \in validatedDocs : Catalog[d] \in Candidates
  /\ (returned.state = "error" /\ returned.err.kind \in { "missing required field", "invalid" }
        => \E f \in Candidates : returned.err.file = AbsPath(f.path))

\* a build succeeded and indexed a post although the vault holds a document
\* that fails the gate and has an unparseable published date
C2_Witness ==
  /\ ~cachedSlugMap.isNull
  /\ cachedSlugMap.map # <<>>
  /\ \E f \in VaultDocs :
       /\ ~IsCandidate(f)
       /\ f.parses
       /\ f.raw.published.t = "string"
       /\ DateParse(f.raw.published.v).nan

\* C3: a metadata parse failure is only ever raised for a candidate document:
\* a private note with a malformed header never aborts the build.
C3_ParseFailureOnlyForCandidates ==
  returned.state = "error" /\ returned.err.kind = "Failed to parse YAML frontmatter"
    => \E f \in Candidates : returned.err.file = AbsPath(f.path)

\* a date value the validator accepts
DateOk(x) == x.t = "string" /\ ~DateParse(x.v).nan

\* a document that raises no error of its own: its header parses and, if it is
\* a candidate, published is a valid date and updated is absent or valid
Wellformed(f) ==
  /\ f.parses
  /\ (IsCandidate(f) =>
        /\ DateOk(f.raw.published)
        /\ (f.raw.updated.t = "undefined" \/ DateOk(f.raw.updated)))

\* the slug a candidate resolves to: the explicit one, or the derived one
SlugOf(f) ==
  IF f.raw.slug.t = "string" /\ f.raw.slug.v # <<>> THEN f.raw.slug.v
  ELSE createSlugNameFromFilePath(f.path)

\* the first n documents in walk order raise no error: the directories of the
\* vault are readable, the documents are well-formed, and the candidates among
\* them have pairwise distinct slugs of which none is a member of
\* Object.prototype
CleanUpTo(n) ==
  /\ rootReadable
  /\ subReadable
  /\ \A i \in 1..n : Wellformed(Catalog[vault[i]])
  /\ \A i \in 1..n : IsCandidate(Catalog[vault[i]])
       => SlugOf(Catalog[vault[i]]) \notin ObjectPrototypeKeys
  /\ \A i, j \in 1..n :
       /\ i # j
       /\ IsCandidate(Catalog[vault[i]])
       /\ IsCandidate(Catalog[vault[j]])
       => SlugOf(Catalog[vault[i]]) # SlugOf(Catalog[vault[j]])

CleanVault == CleanUpTo(Len(vault))

\* C4: when two valid candidates resolve to the same slug, no index is
\* produced, and the 'Duplicate slug' error names the slug and both documents.
C4_DuplicateNamesBothDocuments ==
  LET clash(slug) == { pair \in Candidates \X Candidates :
                         /\ pair[1] # pair[2]
                         /\ Wellformed(pair[1]) /\ Wellformed(pair[2])
                         /\ SlugOf(pair[1]) = slug /\ SlugOf(pair[2]) = slug }
  IN  /\ (\E f \in Candidates : clash(SlugOf(f)) # {})
           => ProducedMaps = {} /\ returned.state # "ok"
      /\ (/\ returned.state = "error"
          /\ returned.err.kind = "Duplicate slug"
          /\ clash(returned.err.slug) # {})
           => /\ returned.err.first.defined
              /\ \E pair \in clash(returned.err.slug) :
                   /\ returned.err.first.path = pair[1].path
                   /\ returned.err.file = AbsPath(pair[2].path)

\* C5: an index produced by a build holds exactly one descriptor per candidate
\* document, under its slug as key, with the candidate's vault-relative path.
C5_OneDescriptorPerCandidate ==
  \A m \in ProducedMaps :
    /\ \A i \in DOMAIN m : m[i].value.slug = m[i].key
    /\ \A i \in DOMAIN m : \E f \in Candidates : m[i].value.filePath = f.path
    /\ \A i, j \in DOMAIN m :
         i # j => m[i].key # m[j].key /\ m[i].value.filePath # m[j].value.filePath
    /\ Len(m) = Cardinality(Candidates)

\* an index with two descriptors is cached
C5_Witness ==
  /\ ~cachedSlugMap.isNull
  /\ Len(cachedSlugMap.map) >= 2

\* C6: a read operation settles with a value only when no document of the
\* vault raises an error, and then the value covers every candidate; an
\* index is never produced from a vault in which some document raises one.
C6_NoPartialIndex ==
  /\ ProducedMaps # {} => CleanVault
  /\ returned.state = "ok" => CleanVault
  /\ \A m \in ProducedMaps : Len(m) = Cardinality(Candidates)
  /\ (returned.state = "ok" /\ returned.name = "getAllBlogPosts"
        => Len(returned.posts) = Cardinality(Candidates))
  /\ (returned.state = "ok" /\ returned.name = "getAllBlogSlugs"
        => Len(returned.slugs) = Cardinality(Candidates))

\* a read operation failed on a vault whose first document is a valid
\* candidate and whose later document raises the error
C6_Witness ==
  /\ returned.state = "error"
  /\ Len(vault) >= 2
  /\ IsCandidate(Catalog[vault[1]])
  /\ CleanUpTo(1)
  /\ cachedSlugMap.isNull
  /\ \A c \in Callers : pc[c] = "idle"

\* C7: with read operations awaited one after another, once the cache holds
\* the index there has been exactly one directory walk and one metadata
\* extraction per file of the vault, however many reads followed.
C7_OneWalkOneExtraction ==
  ~cachedSlugMap.isNull =>
    /\ walkCount = 1
    /\ \A d \in DocIds :
         extractCount[d] = IF \E i \in DOMAIN vault : vault[i] = d THEN 1 ELSE 0

\* every read operation of the run was made, the later ones on the cached
\* index of a vault with a candidate
C7_Witness ==
  /\ ~cachedSlugMap.isNull
  /\ calls = MaxCalls
  /\ NoneInProgress
  /\ returned.state = "ok"
  /\ Candidates # {}

\* C8: at most one build is in progress at any time.
C8_AtMostOneBuildInProgress ==
  Cardinality({ c \in Callers : pc[c] # "idle" }) <= 1

\* C9: getAllBlogPosts returns the descriptors in ascending order of their
\* published time.
C9_PostsAscending ==
  returned.state = "ok" /\ returned.name = "getAllBlogPosts"
    => \A i \in 1..(Len(returned.posts) - 1) :
         PublishedTime(returned.posts[i]).time <= PublishedTime(returned.posts[i + 1]).time

\* a candidate whose raw published is absent
LacksPublished(f) == IsCandidate(f) /\ f.parses /\ f.raw.published.t = "undefined"

\* C10: a vault with a candidate whose published is absent never yields an
\* index; a 'missing required field' error names published and the path of
\* such a candidate; and it is the error of every build in which that
\* candidate is the first document to raise one.
C10_MissingPublishedFails ==
  /\ (\E f \in VaultDocs : LacksPublished(f))
       => ProducedMaps = {} /\ returned.state # "ok"
  /\ returned.state = "error" /\ returned.err.kind = "missing required field"
       => /\ returned.err.field = "published"
          /\ \E f \in VaultDocs : LacksPublished(f) /\ returned.err.file = AbsPath(f.path)
  /\ \A i \in DOMAIN vault :
       /\ LacksPublished(Catalog[vault[i]])
       /\ CleanUpTo(i - 1)
       /\ returned.state = "error"
       => /\ returned.err.kind = "missing required field"
          /\ returned.err.field = "published"
          /\ returned.err.file = AbsPath(Catalog[vault[i]].path)

\* a build failed on a candidate without published that came after a valid
\* candidate
C10_Witness ==
  /\ returned.state = "error"
  /\ returned.err.kind = "missing required field"
  /\ Len(vault) >= 2
  /\ LacksPublished(Catalog[vault[2]])
  /\ IsCandidate(Catalog[vault[1]])

\* a direct call of the validator has returned
Validated == call.fn = "validateAndNormalizeFrontmatter" /\ call.done

\* a raw value that is there but that JavaScript takes for false
Falsy(x) == BlogOff(x)

\* a raw value whose string form is a date
Parses(x) == ~DateParse(ToStr(x)).nan

InvalidDateError(err, field, filePath) ==
  err.kind = "invalid" /\ err.field = field /\ err.file = filePath

\* C11 as stated: whenever raw published is present, an unparseable one fails
\* with 'invalid published' naming the file, and a parseable one validates with
\* its string form as the normalized published.
C11_PresentPublished ==
  Validated /\ call.arg.rawData.published.t # "undefined"
    => IF Parses(call.arg.rawData.published)
       THEN /\ call.out.ok
            /\ call.out.fm.published = Str(ToStr(call.arg.rawData.published))
       ELSE /\ ~call.out.ok
            /\ InvalidDateError(call.out.err, "published", call.arg.filePath)

\* C11 amended: whenever raw published is present and truthy, an unparseable
\* one fails with 'invalid published' naming the file; a parseable one passes,
\* so that validation fails only on an invalid updated, and the normalized
\* published is the string form of the raw value.
C11_TruthyPublished ==
  Validated /\ ~Falsy(call.arg.rawData.published)
    => IF Parses(call.arg.rawData.published)
       THEN /\ call.out.ok \/ InvalidDateError(call.out.err, "updated", call.arg.filePath)
            /\ call.out.ok
                 => call.out.fm.published = Str(ToStr(call.arg.rawData.published))
       ELSE /\ ~call.out.ok
            /\ InvalidDateError(call.out.err, "published", call.arg.filePath)

\* a published date written with slashes was validated and kept as written
C11_Witness ==
  /\ Validated
  /\ call.arg.rawData.published = Str(D_0116)
  /\ call.out.ok
  /\ call.out.fm.published = Str(D_0116)

\* the validator was called with a published date that passes
ValidatedWithPublished ==
  /\ Validated
  /\ ~Falsy(call.arg.rawData.published)
  /\ Parses(call.arg.rawData.published)

\* C12 as stated: updated absent validates and stays absent; updated present
\* and parseable validates and keeps its string form; updated present and
\* unparseable fails with 'invalid updated'; updated is never reported missing.
C12_PresentUpdated ==
  /\ ValidatedWithPublished =>
       IF call.arg.rawData.updated.t = "undefined"
       THEN call.out.ok /\ call.out.fm.updated = Undefined
       ELSE IF Parses(call.arg.rawData.updated)
       THEN call.out.ok /\ call.out.fm.updated = Str(ToStr(call.arg.rawData.updated))
       ELSE ~call.out.ok /\ InvalidDateError(call.out.err, "updated", call.arg.filePath)
  /\ Validated /\ ~call.out.ok /\ call.out.err.kind = "missing required field"
       => call.out.err.field # "updated"

\* C12 amended: updated absent or falsy validates and is left absent; updated
\* truthy and parseable validates and keeps its string form; updated truthy and
\* unparseable fails with 'invalid updated'; updated is never reported missing.
C12_TruthyUpdated ==
  /\ ValidatedWithPublished =>
       IF Falsy(call.arg.rawData.updated)
       THEN call.out.ok /\ call.out.fm.updated = Undefined
       ELSE IF Parses(call.arg.rawData.updated)
       THEN call.out.ok /\ call.out.fm.updated = Str(ToStr(call.arg.rawData.updated))
       ELSE ~call.out.ok /\ InvalidDateError(call.out.err, "updated", call.arg.filePath)
  /\ Validated /\ ~call.out.ok /\ call.out.err.kind = "missing required field"
       => call.out.err.field # "updated"

\* a valid published with an unparseable updated was rejected for its updated
C12_Witness ==
  /\ ValidatedWithPublished
  /\ call.arg.rawData.updated = Str(D_bad)
  /\ ~call.out.ok
  /\ call.out.err.field = "updated"

\* one iteration of the build's loop on an empty slug map has ended
Iterated == call.fn = "createBlogSlugMap.iteration" /\ call.done

\* the iteration inserted a descriptor
Inserted == Iterated /\ call.out.ok /\ call.out.map # <<>>

S_my_cool_post == <<"m","y","-","c","o","o","l","-","p","o","s","t","-">>

\* the slugs the file names of the documents stand for
DerivedSlugOf(markdownFile) ==
  IF markdownFile = AbsPath(Catalog[13].path) THEN S_my_cool_post ELSE <<"a">>

\* the descriptor is stored under slug, and holds it
StoredUnder(slug) ==
  /\ Len(call.out.map) = 1
  /\ call.out.map[1].key = slug
  /\ call.out.map[1].value.slug = slug

\* C13 as stated: with a slug in the frontmatter the descriptor's slug and key
\* are that value, as a string, unchanged; the slug is derived from the file
\* name only when the frontmatter has none.
C13_ExplicitSlugUnlessAbsent ==
  Inserted =>
    IF call.arg.rawData.slug.t # "undefined"
    THEN StoredUnder(ToStr(call.arg.rawData.slug))
    ELSE StoredUnder(DerivedSlugOf(call.arg.markdownFile))

\* C13 amended: with a truthy slug of non-empty string form in the frontmatter
\* the descriptor's slug and key are that string form, unchanged; otherwise the
\* slug is derived from the file name.
C13_ExplicitSlugUnlessFalsy ==
  Inserted =>
    IF ~Falsy(call.arg.rawData.slug) /\ ToStr(call.arg.rawData.slug) # <<>>
    THEN StoredUnder(ToStr(call.arg.rawData.slug))
    ELSE StoredUnder(DerivedSlugOf(call.arg.markdownFile))

\* a slug with capitals, a space and punctuation was taken as it is
C13_Witness ==
  /\ Inserted
  /\ call.arg.rawData.slug = Str(S_My_Slug)
  /\ call.out.map[1].key = S_My_Slug

\* a direct call of the slug helper has returned
SlugNamed == call.fn = "createSlugNameFromFilePath" /\ call.done

\* a file name without its extension: what precedes its last dot, unless the
\* name has no dot after its first character
StrippedName(name) ==
  IF \E i \in 2..Len(name) : name[i] = "."
  THEN SubSeq(name, 1,
              (CHOOSE i \in 2..Len(name) :
                 name[i] = "." /\ \A j \in (i + 1)..Len(name) : name[j] # ".") - 1)
  ELSE name

Alnum(c) == c \in Range(Lower) \cup Range(Upper) \cup Range(Digits)

\* the places of s that show in its slug: every letter and digit, and the
\* first character of every run of other characters
Shown(s) == { i \in DOMAIN s : Alnum(s[i]) \/ i = 1 \/ Alnum(s[i - 1]) }

\* s with every maximal run of other characters turned into one hyphen, in
\* lower case
RunsHyphenated(s) ==
  [ k \in 1..Cardinality(Shown(s)) |->
      LET i == CHOOSE x \in Shown(s) : Cardinality({ y \in Shown(s) : y <= x }) = k
      IN  IF Alnum(s[i]) THEN ToLowerChar(s[i]) ELSE "-" ]

\* C14: the slug of a file path is the base name without its extension, with
\* every maximal run of characters outside [A-Za-z0-9] turned into one hyphen
\* and in lower case: it is a function of that name alone, is not empty, holds
\* only characters of [a-z0-9-] and never two hyphens in a row.
C14_SlugOfBaseName ==
  SlugNamed =>
    /\ call.out = RunsHyphenated(StrippedName(call.arg.filePath[Len(call.arg.filePath)]))
    /\ call.out # <<>>
    /\ \A i \in DOMAIN call.out :
         call.out[i] \in Range(Lower) \cup Range(Digits) \cup { "-" }
    /\ \A i \in 1..(Len(call.out) - 1) : ~(call.out[i] = "-" /\ call.out[i + 1] = "-")

\* the slug of a file in a subdirectory whose name has a capital and a run of
\* two other characters before its extension
C14_Witness ==
  /\ SlugNamed
  /\ Len(call.arg.filePath) = 2
  /\ call.arg.filePath[2] = <<"B", " ", "!", ".", "m", "d">>
  /\ call.out = <<"b", "-">>

DecimalOf(n) ==
  IF n < 10 THEN << Digits[n + 1] >>
  ELSE IF n < 100 THEN << Digits[(n \div 10) + 1], Digits[(n % 10) + 1] >>
  ELSE << Digits[(n \div 100) + 1], Digits[((n \div 10) % 10) + 1], Digits[(n % 10) + 1] >>

\* a string or a number as a string
Written(x) == IF x.t = "number" THEN DecimalOf(x.v) ELSE x.v

\* the elements of a sequence, each as a string, with a comma between them
RECURSIVE CommaJoined(_)
CommaJoined(xs) ==
  IF xs = <<>> THEN <<>>
  ELSE IF Len(xs) = 1 THEN Written(xs[1])
  ELSE CommaJoined(SubSeq(xs, 1, Len(xs) - 1)) \o <<",">> \o Written(xs[Len(xs)])

\* the string a raw value is coerced to: empty for an absent or falsy one
Coerced(x) ==
  IF Falsy(x) THEN <<>>
  ELSE IF x.t = "array" THEN CommaJoined(x.v)
  ELSE IF x.t = "boolean" THEN S_true
  ELSE Written(x)

\* title and description are the coerced raw values
TitleAndDescriptionCoerced ==
  /\ call.out.fm.title = Str(Coerced(call.arg.rawData.title))
  /\ call.out.fm.description = Str(Coerced(call.arg.rawData.description))

\* C16 as stated: title and description are strings, empty for an absent or
\* falsy raw value, the decimal string of a number, the comma-joined elements of
\* a sequence; category is coerced the same way when present and is absent
\* when the raw value is absent.
C16_CategoryWhenPresent ==
  Validated /\ call.out.ok =>
    /\ TitleAndDescriptionCoerced
    /\ call.out.fm.category =
         IF call.arg.rawData.category.t = "undefined" THEN Undefined
         ELSE Str(Coerced(call.arg.rawData.category))

\* C16 amended: title and description as stated; category is coerced the same
\* way when the raw value is truthy and is absent when it is absent or falsy.
C16_CategoryWhenTruthy ==
  Validated /\ call.out.ok =>
    /\ TitleAndDescriptionCoerced
    /\ call.out.fm.category =
         IF Falsy(call.arg.rawData.category) THEN Undefined
         ELSE Str(Coerced(call.arg.rawData.category))

\* a title given as a sequence of two strings came out joined by a comma
C16_Witness ==
  /\ Validated
  /\ call.out.ok
  /\ call.arg.rawData.title = Arr(<<Str(S_part1), Str(S_part2)>>)
  /\ call.out.fm.title = Str(S_part1 \o <<",">> \o S_part2)

\* C17 as stated: a raw sequence of tags is kept as it is, elements uncoerced; a
\* present value that is not a sequence becomes the one-element sequence of
\* its string form; an absent value stays absent.
C17_TagsWhenPresent ==
  Validated /\ call.out.ok =>
    /\ call.out.fm.tags =
         IF call.arg.rawData.tags.t = "array" THEN call.arg.rawData.tags
         ELSE IF call.arg.rawData.tags.t = "undefined" THEN Undefined
         ELSE Arr(<< Str(IF call.arg.rawData.tags.t = "boolean"
                         THEN (IF call.arg.rawData.tags.v THEN S_true ELSE S_false)
                         ELSE Written(call.arg.rawData.tags)) >>)
    /\ call.out.fm.tags.t \in { "undefined", "array" }

\* C17 amended: a raw sequence of tags is kept as it is, elements uncoerced; a
\* truthy value that is not a sequence becomes the one-element sequence of its
\* string form; an absent or falsy value that is not a sequence comes out
\* absent.
C17_TagsWhenTruthy ==
  Validated /\ call.out.ok =>
    /\ call.out.fm.tags =
         IF call.arg.rawData.tags.t = "array" THEN call.arg.rawData.tags
         ELSE IF Falsy(call.arg.rawData.tags) THEN Undefined
         ELSE Arr(<< Str(Coerced(call.arg.rawData.tags)) >>)
    /\ call.out.fm.tags.t \in { "undefined", "array" }

\* tags given as a sequence of a number and a string came out as given
C17_Witness ==
  /\ Validated
  /\ call.out.ok
  /\ call.arg.rawData.tags = Arr(<<Num(1), Str(<<"a">>)>>)
  /\ call.out.fm.tags = Arr(<<Num(1), Str(<<"a">>)>>)

\* a direct call of the walker has returned
WalkReturned == call.fn = "walkDirectoryWithFilter" /\ call.done

\* the entry lies below the directory the walk started from
Below(e, dirPath) ==
  Len(e.path) > Len(dirPath) /\ SubSeq(e.path, 1, Len(dirPath)) = dirPath

\* the extension of a file name, without its dot: what follows the last dot,
\* unless the name has no dot after its first character
ExtensionOf(name) ==
  IF \E i \in 2..Len(name) : name[i] = "."
  THEN SubSeq(name,
              (CHOOSE i \in 2..Len(name) :
                 name[i] = "." /\ \A j \in (i + 1)..Len(name) : name[j] # ".") + 1,
              Len(name))
  ELSE <<>>

\* an extension as the caller wrote it, without its dot
Undotted(x) == IF x # <<>> /\ x[1] = "." THEN SubSeq(x, 2, Len(x)) ELSE x

\* the extension of the entry's name is one of those asked for
Wanted(e, extensions) ==
  \/ extensions.isNull
  \/ \E i \in DOMAIN extensions.list :
       Undotted(extensions.list[i]) = ExtensionOf(e.path[Len(e.path)])

\* C18: a walk that succeeds returns exactly the paths of the entries below
\* its root that are not directories and whose extension is asked for (all of
\* them when no extension is), each once, and never a directory.
C18_WalkReturnsMatchingFiles ==
  WalkReturned /\ call.out.ok =>
    /\ Range(call.out.files) =
         { e.path : e \in { x \in Range(call.arg.fs.entries) :
                              /\ ~x.isDirectory
                              /\ Below(x, call.arg.dirPath)
                              /\ Wanted(x, call.arg.extensions) } }
    /\ \A i, j \in DOMAIN call.out.files : i # j => call.out.files[i] # call.out.files[j]
    /\ \A i \in DOMAIN call.out.files :
         \A e \in Range(call.arg.fs.entries) :
           e.path = call.out.files[i] => ~e.isDirectory

\* a walk for txt and .mdx from the vault directory returned two files, one
\* of them two levels down, and left another file out
C18_Witness ==
  /\ WalkReturned
  /\ call.out.ok
  /\ call.arg.dirPath = VaultPath
  /\ call.arg.extensions = Exts(<< <<"t","x","t">>, <<".","m","d","x">> >>)
  /\ Len(call.out.files) = 2
  /\ \E i \in DOMAIN call.out.files : Len(call.out.files[i]) = Len(VaultPath) + 3
  /\ \E e \in Range(call.arg.fs.entries) : ~e.isDirectory /\ e.path \notin Range(call.out.files)

\* the directory whose reading fails during the walk of the vault: the vault
\* directory itself, or else the subdirectory of its documents
UnreadableDir ==
  IF ~rootReadable THEN VaultPath
  ELSE AbsPath(DirOf(vault[CHOOSE i \in DOMAIN vault : DirOf(vault[i]) # <<>>]))

\* C19: when reading the vault directory or a subdirectory fails, no file list
\* reaches the build (no metadata is extracted, whatever was collected before
\* the failure), every read operation fails with the error of that directory,
\* and the cache stays empty.
C19_WalkFailureFailsBuild ==
  ~rootReadable \/ ~subReadable =>
    /\ \A d \in DocIds : extractCount[d] = 0
    /\ validatedDocs = {}
    /\ ProducedMaps = {}
    /\ cachedSlugMap.isNull
    /\ returned.state # "ok"
    /\ (returned.state = "error"
          => returned.err.kind = "readdir" /\ returned.err.file = UnreadableDir)

\* a read operation failed on a vault whose first file is in the vault
\* directory and whose second is in a subdirectory that cannot be read
C19_Witness ==
  /\ rootReadable
  /\ ~subReadable
  /\ Len(vault) = 2
  /\ DirOf(vault[1]) = <<>>
  /\ DirOf(vault[2]) # <<>>
  /\ returned.state = "error"
  /\ returned.err.file = AbsPath(DirOf(vault[2]))

\* C20: every read operation that has started a build completes: the build
\* ends with an index or an error, and the caller gets its result.
C20_BuildsEnd ==
  \A c \in Callers :
    (pc[c] = "walking") ~> (pc[c] = "idle" /\ returned.state \in { "ok", "error" })

\* two builds were started on a vault of two files, and both have ended
C20_Witness ==
  /\ walkCount = 2
  /\ Len(vault) = 2
  /\ NoneInProgress
  /\ returned.state # "none"

\* the position in walk order of the first document that raises an error,
\* 0 when none does or the walk fails
FirstFailing ==
  IF CleanVault \/ ~(rootReadable /\ subReadable) THEN 0
  ELSE CHOOSE k \in DOMAIN vault : ~CleanUpTo(k) /\ CleanUpTo(k - 1)

\* C21: documents are processed in walk order and the build stops at the first
\* one that raises an error: a failed build reports the error of the earliest
\* failing document, every document up to it has been extracted as often as
\* the first, no document after it is ever extracted, and only documents up to
\* it reach the validator.
C21_StopsAtFirstFailure ==
  rootReadable /\ subReadable =>
    /\ \A i, j \in DOMAIN vault :
         i < j => extractCount[vault[i]] >= extractCount[vault[j]]
    /\ FirstFailing # 0 =>
         /\ \A j \in DOMAIN vault :
              /\ j > FirstFailing => extractCount[vault[j]] = 0 /\ vault[j] \notin validatedDocs
              /\ j <= FirstFailing => extractCount[vault[j]] = extractCount[vault[1]]
         /\ returned.state # "ok"
         /\ returned.state = "error" =>
              returned.err.file = AbsPath(Catalog[vault[FirstFailing]].path)

\* a build failed on the first of two documents that both raise an error, and
\* the second was not extracted
C21_Witness ==
  /\ Len(vault) = 2
  /\ FirstFailing = 1
  /\ ~Wellformed(Catalog[vault[2]])
  /\ returned.state = "error"
  /\ NoneInProgress
  /\ extractCount[vault[1]] >= 1
  /\ extractCount[vault[2]] = 0

\* the orders in which a walk may return the files of the vault
WalkOrders ==
  { [ i \in DOMAIN vault |-> AbsPath(Catalog[vault[p[i]]].path) ] :
      p \in { q \in [DOMAIN vault -> DOMAIN vault] :
                \A i, j \in DOMAIN vault : i # j => q[i] # q[j] } }

\* a slug map as a mapping: its keys with the descriptor under each
Mapping(slugMap) == { <<slugMap[i].key, slugMap[i].value>> : i \in DOMAIN slugMap }

\* C22: the order in which the walker returns the files decides neither
\* whether the build succeeds nor, when it does, which descriptor the index
\* holds under which slug: a build in any other order of the same files
\* succeeds exactly if this one did (the walk having returned them), and with
\* the same mapping.
C22_OrderIndependent ==
  /\ \A m \in ProducedMaps : \A files \in WalkOrders :
       /\ createBlogSlugMap(files, nodeEnv).ok
       /\ Mapping(createBlogSlugMap(files, nodeEnv).map) = Mapping(m)
  /\ rootReadable /\ subReadable /\ returned.state = "error" =>
       \A files \in WalkOrders : ~createBlogSlugMap(files, nodeEnv).ok

\* an index of two descriptors is cached, and the build in the other order of
\* the two files enumerates its keys in the other order
C22_Witness ==
  /\ ~cachedSlugMap.isNull
  /\ Len(cachedSlugMap.map) = 2
  /\ \E files \in WalkOrders :
       Keys(createBlogSlugMap(files, nodeEnv).map) # Keys(cachedSlugMap.map)

\* the declared values of status
DeclaredStatus(x) == x.t = "string" /\ x.v \in { S_published, S_draft, S_idea }

\* the iteration ran on a valid candidate that differs from the base document
\* in its status at most
IteratedOnStatus ==
  /\ Iterated
  /\ call.arg.rawData = [BaseRaw EXCEPT !.status = call.arg.rawData.status]

\* C23: status is passed through unvalidated: the validator returns the raw
\* status unchanged whatever it is, and outside production a candidate whose
\* status is absent or none of 'published', 'draft', 'idea' is indexed without
\* error, with that raw status in its descriptor.
C23_StatusPassedThrough ==
  /\ Validated /\ call.out.ok => call.out.fm.status = call.arg.rawData.status
  /\ IteratedOnStatus /\ nodeEnv # "production" =>
       /\ call.out.ok
       /\ call.out.err = NoError
       /\ Len(call.out.map) = 1
       /\ call.out.map[1].value.frontmatter.status = call.arg.rawData.status

\* outside production a candidate with the undeclared status 'archived' was
\* indexed with it
C23_Witness ==
  /\ IteratedOnStatus
  /\ nodeEnv = "development"
  /\ call.arg.rawData.status = Str(S_archived)
  /\ ~DeclaredStatus(call.arg.rawData.status)
  /\ Inserted
  /\ call.out.map[1].value.frontmatter.status = Str(S_archived)

\* C24: no read operation modifies the cached index: once the cache holds a
\* slug map, no step changes its keys, their order or their descriptors.
C24_CacheNeverModified ==
  [][~cachedSlugMap.isNull => cachedSlugMap' = cachedSlugMap]_vars

\* getAllBlogPosts was served from the cached index of two descriptors and
\* returned them in another order than the cache holds them
C24_Witness ==
  /\ ~cachedSlugMap.isNull
  /\ walkCount = 1
  /\ calls = 2
  /\ returned.state = "ok"
  /\ returned.name = "getAllBlogPosts"
  /\ Len(returned.posts) = 2
  /\ returned.posts # Values(cachedSlugMap.map)

\* the slug fields of a sequence of descriptors
SlugFields(posts) == { posts[i].slug : i \in DOMAIN posts }

\* C25: after a successful build the three read operations agree: the slugs
\* getAllBlogSlugs returns are the slug fields of the descriptors
\* getAllBlogPosts returns, as many of the ones as of the others, and
\* findBlogPostBySlug returns the descriptor with slug s for each s among them
\* and not-found for every other string.
C25_ReadsAgree ==
  returned.state = "ok" =>
    /\ returned.name = "getAllBlogSlugs" =>
         \A r \in getAllBlogPosts(cachedSlugMap.map) :
           /\ Range(returned.slugs) = SlugFields(r.posts)
           /\ Len(returned.slugs) = Len(r.posts)
    /\ returned.name = "getAllBlogPosts" =>
         \A r \in getAllBlogSlugs(cachedSlugMap.map) :
           /\ Range(r.slugs) = SlugFields(returned.posts)
           /\ Len(r.slugs) = Len(returned.posts)
    /\ returned.name = "findBlogPostBySlug" =>
         \A r \in getAllBlogSlugs(cachedSlugMap.map) :
           IF returned.arg \in Range(r.slugs)
           THEN /\ returned.found.kind = "own"
                /\ returned.found.desc[1].slug = returned.arg
           ELSE returned.found.kind = "undefined"

\* C26: a 'Duplicate slug' error is raised only when two distinct candidate
\* documents of the vault resolve to the same slug, which is the slug the
\* error names.
C26_CollisionNeedsTwoCandidates ==
  returned.state = "error" /\ returned.err.kind = "Duplicate slug" =>
    \E i, j \in DOMAIN vault :
      /\ i # j
      /\ IsCandidate(Catalog[vault[i]])
      /\ IsCandidate(Catalog[vault[j]])
      /\ SlugOf(Catalog[vault[i]]) = returned.err.slug
      /\ SlugOf(Catalog[vault[j]]) = returned.err.slug

\* every candidate of the vault has its descriptor in slugMap
Complete(slugMap) == \A f \in Candidates : Indexed(slugMap, f)

\* C27: in every interleaving of callers the cache is empty or holds a
\* completely built index, what a read operation returns misses no candidate
\* of the vault, and a map a build has returned is not changed by another
\* build while its caller waits to store it.
C27_CacheEmptyOrComplete ==
  /\ [](/\ ~cachedSlugMap.isNull => Complete(cachedSlugMap.map)
        /\ \A c \in Callers : pc[c] = "built" => Complete(built[c])
        /\ returned.state = "ok" /\ returned.name = "getAllBlogPosts" =>
             \A f \in Candidates :
               \E i \in DOMAIN returned.posts : returned.posts[i].filePath = f.path
        /\ returned.state = "ok" /\ returned.name = "getAllBlogSlugs" =>
             \A f \in Candidates : SlugOf(f) \in Range(returned.slugs)
        /\ returned.state = "ok" /\ returned.name = "findBlogPostBySlug" =>
             \A f \in Candidates :
               SlugOf(f) = returned.arg =>
                 /\ returned.found.kind = "own"
                 /\ returned.found.desc[1].filePath = f.path)
  /\ [][\A c \in Callers :
          pc[c] = "built" /\ pc'[c] = "built" => built'[c] = built[c]]_vars

\* two builds overlapped on a vault of two candidates: one has stored its
\* index in the cache while the other still holds the map it returned
C27_Witness ==
  /\ walkCount = 2
  /\ ~cachedSlugMap.isNull
  /\ Len(cachedSlugMap.map) = 2
  /\ \E c \in Callers : pc[c] = "built" /\ Len(built[c]) = 2

\* C28: a failed build is never memoized: when a read operation has failed the
\* cache is empty, every read operation invoked so far has started a build
\* with a directory walk of its own, and every later outcome is that same
\* error.
C28_FailureNotMemoized ==
  /\ [](returned.state = "error" => cachedSlugMap.isNull /\ walkCount = calls)
  /\ [][returned.state = "error" => returned' = returned]_vars

\* a second read operation walked the vault again and failed like the first,
\* on a document whose published date is missing
C28_Witness ==
  /\ calls = 2
  /\ walkCount = 2
  /\ NoneInProgress
  /\ cachedSlugMap.isNull
  /\ returned.state = "error"
  /\ returned.err.kind = "missing required field"
  /\ \A d \in Range(vault) : extractCount[d] = 2

\* a descriptor a read operation may hand out: its blog flag is true, in
\* production its status is 'published', and the document it stands for is
\* one of the vault whose raw blog coerces to true
Public(desc) ==
  /\ desc.frontmatter.blog = Bool(TRUE)
  /\ (nodeEnv = "production" => desc.frontmatter.status = Str(S_published))
  /\ \E f \in VaultDocs : f.path = desc.filePath /\ ~BlogOff(f.raw.blog)

\* C29: every descriptor getAllBlogPosts or findBlogPostBySlug returns has
\* frontmatter.blog true and, in production, status 'published', and stands for
\* a document whose raw blog coerces to true; the slugs getAllBlogSlugs returns
\* are those of such documents.
C29_OnlyPublicDescriptors ==
  returned.state = "ok" =>
    /\ \A i \in DOMAIN returned.posts : Public(returned.posts[i])
    /\ \A i \in DOMAIN returned.found.desc : Public(returned.found.desc[i])
    /\ \A i \in DOMAIN returned.slugs :
         \E f \in Candidates : SlugOf(f) = returned.slugs[i]

\* getAllBlogPosts returned the one post of a vault that also holds a private
\* note with a complete, valid header
C29_Witness ==
  /\ returned.state = "ok"
  /\ returned.name = "getAllBlogPosts"
  /\ Len(returned.posts) = 1
  /\ \E f \in VaultDocs : BlogOff(f.raw.blog) /\ Wellformed(f) /\ DateOk(f.raw.published)

====
